---- MODULE Spec2Model ----
(***************************************************************************)
(* wifi-monitor: the privileged coordinator (electron/main.ts) with its    *)
(* get-local-devices ScanGuard, and the display state aggregator           *)
(* (src/App.tsx): the polling loop, the scan trigger and the teardown.     *)
(*                                                                         *)
(* Both processes are single-threaded event loops: one action is one       *)
(* callback run from its entry to its next await (or to its return).       *)
(* Timers are abstracted to "armed / fires at some later point"; external  *)
(* providers (find(), systeminformation) complete at an arbitrary moment   *)
(* with an arbitrary outcome.  React commits a state change some time      *)
(* after the setter call (Render), and on commit re-creates the callbacks  *)
(* and re-runs the effect whose dependencies changed.                      *)
(***************************************************************************)
EXTENDS Integers, Sequences, FiniteSets

\* ---------------------------------------------------------------- bounds
\* Spec explores the device scan in depth, SpecPoll overlapping polls and
\* SpecHistory a long run of polls; each runs every operation of the program.
MaxReqs == 2        \* get-local-devices invocations over a run (Spec)
FewReqs == 1        \* the same (SpecPoll, SpecHistory)
MaxInFlight == 2    \* fetchStats calls awaiting a reply at the same time (SpecPoll)
FewInFlight == 1    \* the same (Spec, SpecHistory)
MaxSamples == 42    \* usage samples applied over a run (SpecHistory)
FewSamples == 1     \* the same (Spec, SpecPoll)
MaxIfaces == 2      \* network interfaces the system reports (SpecProbe)
SmallRates == 2100  \* formatSpeed is given every rate from 0 to this (SpecProbe)
NearRates == 60     \* and every rate this close to the KB/s - MB/s switch
MaxTenthsMB == 40   \* and rates up to this many tenths of a MB/s

\* ------------------------------------------------------ program constants
HistoryCap == 40    \* newData.slice(-40)
BytesPerKB == 1024  \* usage.rx_sec / 1024
KBLimit == 1000     \* if (kbps < 1000)

Reqs == 1..MaxReqs
\* a value that may be null: << >> is null, <<v>> is the value v
Null == << >>
Some(v) == <<v>>
Val(o) == o[1]
EmptyList == << >>
\* what find() can resolve to
DeviceLists == {<<"d1">>}

\* ------------------------------------- electron/main.ts, get-active-connection
\* the interfaces si.networkInterfaces() can report (speed may be null)
Ifaces ==
    { [iface |-> "eth0", type |-> "wired", operstate |-> "up",
       ip4 |-> "192.168.1.2", speed |-> Some(1000), mac |-> "m0"],
      [iface |-> "wlan0", type |-> "wireless", operstate |-> "up",
       ip4 |-> "192.168.1.3", speed |-> Null, mac |-> "m1"],
      [iface |-> "eth1", type |-> "wired", operstate |-> "down",
       ip4 |-> "", speed |-> Null, mac |-> "m2"],
      [iface |-> "wlan1", type |-> "wireless", operstate |-> "up",
       ip4 |-> "", speed |-> Some(0), mac |-> "m3"] }

IfaceLists == UNION {[1..n -> Ifaces] : n \in 0..MaxIfaces}

\* what wifi.getCurrentConnections() can do: throw, or resolve to a list
WifiOutcomes ==
    { [throws |-> TRUE, connections |-> << >>],
      [throws |-> FALSE, connections |-> << >>],
      [throws |-> FALSE, connections |->
          <<[ssid |-> "HomeNet", signal_level |-> 70, security |-> "WPA2"]>>],
      [throws |-> FALSE, connections |->
          <<[ssid |-> "", signal_level |-> 55, security |-> "WPA2"]>>] }

\* what the system queries of one get-active-connection request yield
Systems ==
    {[primary |-> "throws", defaultIface |-> "", interfaces |-> << >>,
      wifi |-> [throws |-> FALSE, connections |-> << >>]]}
    \cup [primary : {"ok"}, defaultIface : {"", "eth0", "wlan0"},
          interfaces : IfaceLists, wifi : WifiOutcomes]

\* Array.prototype.find, given the predicate's value on each element: the
\* index of the first element satisfying it, or 0
FirstIndex(hits) ==
    IF \E k \in 1..Len(hits) : hits[k]
    THEN CHOOSE k \in 1..Len(hits) : hits[k] /\ \A j \in 1..(k - 1) : ~hits[j]
    ELSE 0

\* allInterfaces.find(i => i.iface === defaultIfaceName)
\*   || allInterfaces.find(i => i.operstate === 'up' && i.ip4 !== '')
SelectIface(sys) ==
    LET all == sys.interfaces
        isDefault == [k \in 1..Len(all) |-> all[k].iface = sys.defaultIface]
        isUp == [k \in 1..Len(all) |-> all[k].operstate = "up" /\ all[k].ip4 # ""]
        d == FirstIndex(isDefault)
    IN  IF d # 0 THEN d ELSE FirstIndex(isUp)

DisconnectedSnapshot ==
    [ssid |-> "No Connection", type |-> "none", status |-> "down",
     ip4 |-> "0.0.0.0", speed |-> 0]

\* the snapshot built for interface i before the wireless query
BaseStats(i) ==
    [ssid |-> i.iface, signal_level |-> 100, security |-> "N/A", type |-> i.type,
     speed |-> (IF i.speed = Null THEN 0 ELSE Val(i.speed)),
     status |-> i.operstate, ip4 |-> i.ip4, mac |-> i.mac, iface |-> i.iface]

\* mutant: no inner try/catch, a failing wireless query reaches the outer
\* catch
WifiEnrich_NoCatch(stats, wifi) ==
    IF wifi.throws
    THEN Null
    ELSE IF Len(wifi.connections) = 0
    THEN Some(stats)
    ELSE LET c == wifi.connections[1] IN
         Some([stats EXCEPT !.ssid = (IF c.ssid # "" THEN c.ssid ELSE stats.iface),
                            !.signal_level = c.signal_level,
                            !.security = c.security])

\* the inner try/catch: the wireless query enriches the snapshot, or fails
\* and leaves it
WifiEnrich(stats, wifi) ==
    IF wifi.throws \/ Len(wifi.connections) = 0
    THEN Some(stats)
    ELSE LET c == wifi.connections[1] IN
         Some([stats EXCEPT !.ssid = (IF c.ssid # "" THEN c.ssid ELSE stats.iface),
                            !.signal_level = c.signal_level,
                            !.security = c.security])

\* ipcMain.handle('get-active-connection'): Null, or Some(snapshot)
GetActiveConnection(sys) ==
    IF sys.primary = "throws" THEN Null
    ELSE LET k == SelectIface(sys) IN
         IF k = 0 THEN Some(DisconnectedSnapshot)
         ELSE LET i == sys.interfaces[k] IN
              IF i.type = "wireless"
              THEN WifiEnrich(BaseStats(i), sys.wifi)
              ELSE Some([BaseStats(i) EXCEPT !.ssid = "Ethernet Connection"])

\* the systems the polling specifications draw from: a failing primary
\* query, and one wired interface
PollSystems ==
    {s \in Systems :
        \/ s.primary = "throws"
        \/ /\ s.defaultIface = "eth0" /\ s.wifi.throws
           /\ Len(s.interfaces) = 1 /\ s.interfaces[1].iface = "eth0"}

\* what get-active-connection can resolve to
ConnReplies == {GetActiveConnection(s) : s \in PollSystems}
\* what get-network-usage can resolve to
UsageReplies == {Null, Some([rx_sec |-> 2048, tx_sec |-> 1024])}

VARIABLES
    \* electron/main.ts
    isScanning,     \* the ScanGuard
    reqState,       \* per invocation: unsent, sent, awaiting, returned, consumed
    findState,      \* per invocation: none, running, resolved, rejected (the find() promise)
    result,         \* per invocation: Some(the reply on its way to the caller), or Null
    \* src/App.tsx, device scan
    view,           \* init (before the first effect), mounted, unmounted
    scanning,       \* useState: the latest value given to setScanning
    rScanning,      \* the value of scanning in the committed render
    devices,        \* useState
    scanTimer,      \* initialScanTimer: none, armed
    timerScanning,  \* scanning as captured by the scanDevices the timer holds
    userRescanned,  \* history: the rescan button has been clicked
    \* src/App.tsx, polling
    isPolling,      \* useRef
    statsInterval,  \* the interval is armed
    inflight,       \* fetchStats calls awaiting a reply, in start order
    connection,     \* useState
    usageHistory,   \* useState
    now,            \* the wall clock read by the history updater
    \* one handled request, for the properties of the reply as a function of
    \* what the system queries yield (SpecProbe)
    lastCall        \* Null, or Some([op, in, out])

mainVars == <<isScanning, reqState, findState, result>>
scanVars == <<view, scanning, rScanning, devices, scanTimer, timerScanning, userRescanned>>
pollVars == <<isPolling, statsInterval, inflight, connection, usageHistory, now>>
appVars == <<mainVars, scanVars, pollVars>>
vars == <<appVars, lastCall>>

\* ---------------------------------------------------------------- helpers
RemoveAt(s, i) == SubSeq(s, 1, i - 1) \o SubSeq(s, i + 1, Len(s))

\* mutant: slice(0, n), the first n elements
SliceFirst(s, n) == IF Len(s) <= n THEN s ELSE SubSeq(s, 1, n)

\* Array.prototype.slice(-n): the last n elements
SliceLast(s, n) == IF Len(s) <= n THEN s ELSE SubSeq(s, Len(s) - n + 1, Len(s))

Init ==
    /\ isScanning = FALSE
    /\ reqState = [r \in Reqs |-> "unsent"]
    /\ findState = [r \in Reqs |-> "none"]
    /\ result = [r \in Reqs |-> Null]
    /\ view = "init"
    /\ scanning = FALSE
    /\ rScanning = FALSE
    /\ devices = EmptyList
    /\ scanTimer = "none"
    /\ timerScanning = FALSE
    /\ userRescanned = FALSE
    /\ isPolling = TRUE
    /\ statsInterval = FALSE
    /\ inflight = << >>
    /\ connection = Null
    /\ usageHistory = << >>
    /\ now = 0
    /\ lastCall = Null

\* ------------------------------------------------- electron/main.ts
\* mutant: the handler returns without the finally block
HandlerReturn_NoFinally(r, value) ==
    /\ reqState' = [reqState EXCEPT ![r] = "returned"]
    /\ result' = [result EXCEPT ![r] = Some(value)]
    /\ UNCHANGED isScanning

\* `return ...` followed by `finally { isScanning = false }`
HandlerReturn(r, value) ==
    /\ reqState' = [reqState EXCEPT ![r] = "returned"]
    /\ result' = [result EXCEPT ![r] = Some(value)]
    /\ isScanning' = FALSE

\* mutant: the handler does not test the guard
GetLocalDevices_NoGuard(r) ==
    /\ reqState[r] = "sent"
    /\ isScanning' = TRUE
    /\ findState' = [findState EXCEPT ![r] = "running"]
    /\ reqState' = [reqState EXCEPT ![r] = "awaiting"]
    /\ UNCHANGED result
    /\ UNCHANGED <<scanVars, pollVars>>

\* mutant: an admitted handler does not set the guard
GetLocalDevices_NoSet(r) ==
    /\ reqState[r] = "sent"
    /\ IF isScanning
       THEN /\ reqState' = [reqState EXCEPT ![r] = "returned"]
            /\ result' = [result EXCEPT ![r] = Some(EmptyList)]
            /\ UNCHANGED <<isScanning, findState>>
       ELSE /\ findState' = [findState EXCEPT ![r] = "running"]
            /\ reqState' = [reqState EXCEPT ![r] = "awaiting"]
            /\ UNCHANGED <<isScanning, result>>
    /\ UNCHANGED <<scanVars, pollVars>>

\* mutant: the guard is tested inside the try block, so the finally block
\* also runs for a rejected request
GetLocalDevices_RejectReleases(r) ==
    /\ reqState[r] = "sent"
    /\ IF isScanning
       THEN /\ reqState' = [reqState EXCEPT ![r] = "returned"]
            /\ result' = [result EXCEPT ![r] = Some(EmptyList)]
            /\ isScanning' = FALSE
            /\ UNCHANGED findState
       ELSE /\ isScanning' = TRUE
            /\ findState' = [findState EXCEPT ![r] = "running"]
            /\ reqState' = [reqState EXCEPT ![r] = "awaiting"]
            /\ UNCHANGED result
    /\ UNCHANGED <<scanVars, pollVars>>

\* ipcMain.handle('get-local-devices'): from the entry of the handler to its
\* await of Promise.race([find(), timeout])
GetLocalDevices(r) ==
    /\ reqState[r] = "sent"
    /\ IF isScanning
       THEN /\ reqState' = [reqState EXCEPT ![r] = "returned"]
            /\ result' = [result EXCEPT ![r] = Some(EmptyList)]
            /\ UNCHANGED <<isScanning, findState>>
       ELSE /\ isScanning' = TRUE
            /\ findState' = [findState EXCEPT ![r] = "running"]
            /\ reqState' = [reqState EXCEPT ![r] = "awaiting"]
            /\ UNCHANGED result
    /\ UNCHANGED <<scanVars, pollVars>>

\* find() resolves; if the race is still open the handler returns the devices
FindResolves(r, list) ==
    /\ findState[r] = "running"
    /\ findState' = [findState EXCEPT ![r] = "resolved"]
    /\ IF reqState[r] = "awaiting"
       THEN HandlerReturn(r, list)
       ELSE UNCHANGED <<reqState, result, isScanning>>
    /\ UNCHANGED <<scanVars, pollVars>>

\* find() rejects; if the race is still open the catch block returns []
FindRejects(r) ==
    /\ findState[r] = "running"
    /\ findState' = [findState EXCEPT ![r] = "rejected"]
    /\ IF reqState[r] = "awaiting"
       THEN HandlerReturn(r, EmptyList)
       ELSE UNCHANGED <<reqState, result, isScanning>>
    /\ UNCHANGED <<scanVars, pollVars>>

\* mutant: the timeout path returns [] and keeps the guard
DiscoveryTimeout_KeepsGuard(r) ==
    /\ reqState[r] = "awaiting"
    /\ reqState' = [reqState EXCEPT ![r] = "returned"]
    /\ result' = [result EXCEPT ![r] = Some(EmptyList)]
    /\ UNCHANGED <<isScanning, findState>>
    /\ UNCHANGED <<scanVars, pollVars>>

\* the 15000 ms timer rejects the race first: the catch block returns [];
\* find() is not cancelled and stays running
DiscoveryTimeout(r) ==
    /\ reqState[r] = "awaiting"
    /\ HandlerReturn(r, EmptyList)
    /\ UNCHANGED findState
    /\ UNCHANGED <<scanVars, pollVars>>

\* ------------------------------------------------- src/App.tsx, device scan
NextReq == CHOOSE r \in Reqs : reqState[r] = "unsent" /\ \A q \in 1..(r - 1) : reqState[q] # "unsent"

\* scanDevices up to its await; captured is the value of `scanning` in the
\* closure that is called
ScanDevices(captured, reqCap) ==
    IF captured
    THEN UNCHANGED <<scanning, reqState>>
    ELSE /\ \E r \in 1..reqCap : reqState[r] = "unsent"
         /\ scanning' = TRUE
         /\ reqState' = [reqState EXCEPT ![NextReq] = "sent"]

\* fetchStats up to its first await
FetchStats(flightCap) ==
    IF isPolling'
    THEN /\ Len(inflight) < flightCap
         /\ inflight' = Append(inflight,
                [phase |-> "conn", connSet |-> FALSE, overtaken |-> FALSE, interleaved |-> FALSE])
    ELSE UNCHANGED inflight

\* the body of useEffect; a re-run is preceded by the cleanup of the previous
\* run, whose writes the body overwrites
RunEffect(capturedScanning, flightCap) ==
    /\ isPolling' = TRUE
    /\ FetchStats(flightCap)
    /\ statsInterval' = TRUE
    /\ scanTimer' = "armed"
    /\ timerScanning' = capturedScanning

\* first commit: the effect runs
Mount(flightCap) ==
    /\ view = "init"
    /\ view' = "mounted"
    /\ RunEffect(rScanning, flightCap)
    /\ UNCHANGED <<mainVars, scanning, rScanning, devices, userRescanned, connection, usageHistory, now>>

\* React commits the changed `scanning`: scanDevices is re-created
\* (useCallback [scanning]), so the effect ([fetchStats, scanDevices]) is
\* cleaned up and re-run
Render(flightCap) ==
    /\ view = "mounted"
    /\ scanning # rScanning
    /\ rScanning' = scanning
    /\ RunEffect(scanning, flightCap)
    /\ UNCHANGED <<mainVars, view, scanning, devices, userRescanned, connection, usageHistory, now>>

\* the component is unmounted: the effect's cleanup runs
Unmount ==
    /\ view = "mounted"
    /\ view' = "unmounted"
    /\ isPolling' = FALSE
    /\ statsInterval' = FALSE
    /\ scanTimer' = "none"
    /\ UNCHANGED <<mainVars, scanning, rScanning, devices, timerScanning, userRescanned,
                   inflight, connection, usageHistory, now>>

\* setTimeout(scanDevices, 3000) fires
InitialScanTimer(reqCap) ==
    /\ scanTimer = "armed"
    /\ scanTimer' = "none"
    /\ ScanDevices(timerScanning, reqCap)
    /\ UNCHANGED <<isScanning, findState, result, view, rScanning, devices, timerScanning, userRescanned, pollVars>>

\* the rescan button (disabled={scanning}) is clicked
ClickRescan(reqCap) ==
    /\ view = "mounted"
    /\ ~rScanning
    /\ ScanDevices(rScanning, reqCap)
    /\ userRescanned' = TRUE
    /\ UNCHANGED <<isScanning, findState, result, view, rScanning, devices, scanTimer, timerScanning, pollVars>>

\* scanDevices after its await: setDevices(list), finally setScanning(false)
ScanDevicesResume(r) ==
    /\ reqState[r] = "returned"
    /\ reqState' = [reqState EXCEPT ![r] = "consumed"]
    /\ result' = [result EXCEPT ![r] = Null]
    /\ devices' = Val(result[r])
    /\ scanning' = FALSE
    /\ UNCHANGED <<isScanning, findState, view, rScanning, scanTimer, timerScanning, userRescanned, pollVars>>

\* ------------------------------------------------- src/App.tsx, polling
\* setInterval(fetchStats, 1500) fires
IntervalTick(flightCap) ==
    /\ statsInterval
    /\ isPolling' = isPolling
    /\ FetchStats(flightCap)
    /\ UNCHANGED <<mainVars, scanVars, statsInterval, connection, usageHistory, now>>

\* history fields of the calls in flight when call i applies a result: the
\* calls started before i are overtaken, and the calls that have set the
\* connection and still await their usage are interleaved
Applied(i) ==
    [j \in 1..Len(inflight) |->
        IF j = i THEN inflight[j]
        ELSE [inflight[j] EXCEPT
                !.overtaken = @ \/ j < i,
                !.interleaved = @ \/ (inflight[j].connSet /\ inflight[j].phase = "usage")]]

\* the updater given to setUsageHistory
SetUsageHistory(prev, usage, label) ==
    SliceLast(Append(prev, [label |-> label,
                            rx |-> usage.rx_sec \div BytesPerKB,
                            tx |-> usage.tx_sec \div BytesPerKB]), HistoryCap)

\* getActiveConnection() resolves: if (conn) setConnection(conn); then
\* getNetworkUsage() is called
ConnReply(i, conn) ==
    /\ i \in 1..Len(inflight)
    /\ inflight[i].phase = "conn"
    /\ IF conn # Null
       THEN /\ connection' = conn
            /\ inflight' = [Applied(i) EXCEPT ![i].phase = "usage", ![i].connSet = TRUE]
       ELSE /\ UNCHANGED connection
            /\ inflight' = [inflight EXCEPT ![i].phase = "usage"]
    /\ UNCHANGED <<mainVars, scanVars, isPolling, statsInterval, usageHistory, now>>

\* getNetworkUsage() resolves: if (usage) setUsageHistory(...)
UsageReply(i, usage, limit) ==
    /\ i \in 1..Len(inflight)
    /\ inflight[i].phase = "usage"
    /\ IF usage # Null
       THEN /\ now < limit
            /\ now' = now + 1
            /\ usageHistory' = SetUsageHistory(usageHistory, Val(usage), now')
            /\ inflight' = RemoveAt(Applied(i), i)
       ELSE /\ UNCHANGED <<usageHistory, now>>
            /\ inflight' = RemoveAt(inflight, i)
    /\ UNCHANGED <<mainVars, scanVars, isPolling, statsInterval, connection>>

\* mutant: the catch block stops the polling
PollRejects_Stops(i) ==
    /\ i \in 1..Len(inflight)
    /\ inflight' = RemoveAt(inflight, i)
    /\ isPolling' = FALSE
    /\ UNCHANGED <<mainVars, scanVars, statsInterval, connection, usageHistory, now>>

\* either invoke rejects: the catch block logs, the call ends
PollRejects(i) ==
    /\ i \in 1..Len(inflight)
    /\ inflight' = RemoveAt(inflight, i)
    /\ UNCHANGED <<mainVars, scanVars, isPolling, statsInterval, connection, usageHistory, now>>

\* ------------------------------------------------- src/App.tsx, formatSpeed
\* parseFloat((num / den).toFixed(1)), in tenths: the integer n nearest to
\* 10 * num / den, the larger one of two equally near (num >= 0, den > 0)
ToFixed1(num, den) == (20 * num + den) \div (2 * den)

\* mutant: the unit switches at 1024 KB/s
FormatSpeed_SwitchAt1024(bytesPerSec) ==
    IF bytesPerSec = 0 THEN [val10 |-> 0, unit |-> "B/s"]
    ELSE IF bytesPerSec < BytesPerKB * BytesPerKB
    THEN [val10 |-> ToFixed1(bytesPerSec, BytesPerKB), unit |-> "KB/s"]
    ELSE [val10 |-> ToFixed1(bytesPerSec, BytesPerKB * BytesPerKB), unit |-> "MB/s"]

\* formatSpeed; val10 is val in tenths
FormatSpeed(bytesPerSec) ==
    IF bytesPerSec = 0 THEN [val10 |-> 0, unit |-> "B/s"]
    ELSE IF bytesPerSec < KBLimit * BytesPerKB
    THEN [val10 |-> ToFixed1(bytesPerSec, BytesPerKB), unit |-> "KB/s"]
    ELSE [val10 |-> ToFixed1(bytesPerSec, BytesPerKB * BytesPerKB), unit |-> "MB/s"]

\* the rates formatSpeed is given
SpeedInputs ==
    (0..SmallRates)
    \cup {KBLimit * BytesPerKB + d : d \in (0 - NearRates)..NearRates}
    \cup {500 * BytesPerKB, 1500 * BytesPerKB}
    \cup {(k * BytesPerKB * BytesPerKB) \div 10 + d : k \in 10..MaxTenthsMB, d \in {0, 52428, 52429}}

\* the view formats a rate
CallFormatSpeed(bytesPerSec) ==
    /\ lastCall' = Some([op |-> "formatSpeed", in |-> bytesPerSec,
                         out |-> FormatSpeed(bytesPerSec)])
    /\ UNCHANGED appVars

\* a get-active-connection request is handled with the system in state sys
HandleGetActiveConnection(sys) ==
    /\ lastCall' = Some([op |-> "get-active-connection", in |-> sys,
                         out |-> GetActiveConnection(sys)])
    /\ UNCHANGED appVars

\* ---------------------------------------------------------- specifications
Next ==
    /\ UNCHANGED lastCall
    /\ \/ \E r \in Reqs : GetLocalDevices(r)
       \/ \E r \in Reqs, list \in DeviceLists : FindResolves(r, list)
       \/ \E r \in Reqs : FindRejects(r)
       \/ \E r \in Reqs : DiscoveryTimeout(r)
       \/ Mount(FewInFlight)
       \/ Render(FewInFlight)
       \/ Unmount
       \/ InitialScanTimer(MaxReqs)
       \/ ClickRescan(MaxReqs)
       \/ \E r \in Reqs : ScanDevicesResume(r)
       \/ IntervalTick(FewInFlight)
       \/ \E i \in 1..Len(inflight), conn \in ConnReplies : ConnReply(i, conn)
       \/ \E i \in 1..Len(inflight), usage \in UsageReplies : UsageReply(i, usage, FewSamples)
       \/ \E i \in 1..Len(inflight) : PollRejects(i)

Spec == Init /\ [][Next]_vars

NextPoll ==
    /\ UNCHANGED lastCall
    /\ \/ \E r \in Reqs : GetLocalDevices(r)
       \/ \E r \in Reqs, list \in DeviceLists : FindResolves(r, list)
       \/ \E r \in Reqs : FindRejects(r)
       \/ \E r \in Reqs : DiscoveryTimeout(r)
       \/ Mount(MaxInFlight)
       \/ Render(MaxInFlight)
       \/ Unmount
       \/ InitialScanTimer(FewReqs)
       \/ ClickRescan(FewReqs)
       \/ \E r \in Reqs : ScanDevicesResume(r)
       \/ IntervalTick(MaxInFlight)
       \/ \E i \in 1..Len(inflight), conn \in ConnReplies : ConnReply(i, conn)
       \/ \E i \in 1..Len(inflight), usage \in UsageReplies : UsageReply(i, usage, FewSamples)
       \/ \E i \in 1..Len(inflight) : PollRejects(i)

SpecPoll == Init /\ [][NextPoll]_vars

NextHistory ==
    /\ UNCHANGED lastCall
    /\ \/ \E r \in Reqs : GetLocalDevices(r)
       \/ \E r \in Reqs, list \in DeviceLists : FindResolves(r, list)
       \/ \E r \in Reqs : FindRejects(r)
       \/ \E r \in Reqs : DiscoveryTimeout(r)
       \/ Mount(FewInFlight)
       \/ Render(FewInFlight)
       \/ Unmount
       \/ InitialScanTimer(FewReqs)
       \/ ClickRescan(FewReqs)
       \/ \E r \in Reqs : ScanDevicesResume(r)
       \/ IntervalTick(FewInFlight)
       \/ \E i \in 1..Len(inflight), conn \in ConnReplies : ConnReply(i, conn)
       \/ \E i \in 1..Len(inflight), usage \in UsageReplies : UsageReply(i, usage, MaxSamples)
       \/ \E i \in 1..Len(inflight) : PollRejects(i)

SpecHistory == Init /\ [][NextHistory]_vars

NextProbe ==
    \/ \E sys \in Systems : HandleGetActiveConnection(sys)
    \/ \E b \in SpeedInputs : CallFormatSpeed(b)

SpecProbe == Init /\ [][NextProbe]_vars

\* ------------------------------------------------------------------ claims
Awaiting == {r \in Reqs : reqState[r] = "awaiting"}
Returned(r) == reqState[r] \in {"returned", "consumed"}

\* C1: whenever no admitted get-local-devices handler is in progress the
\* ScanGuard is released, whichever way the handlers exited.
C1_GuardReleased == (Awaiting = {}) => (isScanning = FALSE)

\* one handler has exited by the timeout, a later one by its discovery, and
\* none is in progress
C1_Witness ==
    /\ Awaiting = {}
    /\ isScanning = FALSE
    /\ \E r, q \in Reqs :
        /\ Returned(r) /\ findState[r] = "running"
        /\ Returned(q) /\ findState[q] \in {"resolved", "rejected"}

\* C2: a request handled while isScanning is true returns [] in that same
\* step; it is not left pending, starts no discovery and leaves the guard.
C2_BusyReturnsEmpty ==
    [][\A r \in Reqs :
          (reqState[r] = "sent" /\ reqState'[r] # "sent" /\ isScanning)
          => /\ reqState'[r] = "returned"
             /\ result'[r] = Some(EmptyList)
             /\ findState' = findState
             /\ isScanning' = isScanning]_vars

\* a request has been answered [] without a discovery while a scan is in
\* progress
C2_Witness ==
    \E r, q \in Reqs :
        /\ reqState[q] = "awaiting"
        /\ reqState[r] = "returned" /\ findState[r] = "none"
        /\ result[r] = Some(EmptyList)

\* C3: a handler that exits because the timeout won or discovery failed
\* returns [] and leaves the guard false, and a request handled while the
\* guard is false is admitted and starts a discovery.
C3_NoLockOut ==
    [][\A r \in Reqs :
          /\ (reqState[r] = "awaiting" /\ reqState'[r] = "returned"
                /\ findState'[r] \in {"running", "rejected"})
             => (result'[r] = Some(EmptyList) /\ isScanning' = FALSE)
          /\ (reqState[r] = "sent" /\ reqState'[r] # "sent" /\ ~isScanning)
             => (reqState'[r] = "awaiting" /\ findState'[r] = "running" /\ isScanning')]_vars

\* after a scan that timed out (its discovery never completed) the next
\* request has been admitted
C3_Witness ==
    \E r, q \in Reqs :
        /\ Returned(r) /\ findState[r] = "running"
        /\ reqState[q] = "awaiting" /\ findState[q] = "running"

\* C4 as stated: at most one find() is running at any time.
C4_OneFindRunning == Cardinality({r \in Reqs : findState[r] = "running"}) <= 1

\* C4 as amended: at most one admitted handler is in progress at any time,
\* and its find() is the only one whose result is still awaited.
C4_OneScanInProgress ==
    /\ Cardinality(Awaiting) <= 1
    /\ \A r \in Reqs : (findState[r] = "running" /\ ~Returned(r)) => r \in Awaiting

\* the find() of a timed-out scan runs beside the find() of the scan in
\* progress
C4_Witness ==
    \E r, q \in Reqs :
        /\ r # q
        /\ Returned(r) /\ findState[r] = "running"
        /\ q \in Awaiting /\ findState[q] = "running"

\* C5: while the liveness flag is cleared no update of the connection or of
\* the usage history is applied.
C5_NoUpdateAfterTeardown ==
    [][(~isPolling) => (connection' = connection /\ usageHistory' = usageHistory)]_vars

\* C6: the usage history never holds more than 40 samples; every applied
\* usage result puts one sample, stamped with the current time, at the end,
\* keeps the earlier samples in order and, at 40, drops the first.
C6_SlidingWindow ==
    /\ [](Len(usageHistory) <= HistoryCap)
    /\ [][(now' # now) =>
            LET n == Len(usageHistory) IN
            /\ Len(usageHistory') = (IF n < HistoryCap THEN n + 1 ELSE HistoryCap)
            /\ usageHistory'[Len(usageHistory')].label = now'
            /\ SubSeq(usageHistory', 1, Len(usageHistory') - 1)
                 = (IF n < HistoryCap THEN usageHistory ELSE Tail(usageHistory))]_vars

\* the history is full and its first samples have been evicted
C6_Witness ==
    /\ Len(usageHistory) = HistoryCap
    /\ usageHistory[1].label > 1
    /\ usageHistory[HistoryCap].label = now

\* call i appends its usage sample in this step
AppendsUsage(i) ==
    /\ inflight[i].phase = "usage"
    /\ now' = now + 1
    /\ inflight' = RemoveAt(Applied(i), i)

\* call i sets the connection in this step
SetsConnection(i) ==
    /\ inflight[i].phase = "conn"
    /\ inflight' = [Applied(i) EXCEPT ![i].phase = "usage", ![i].connSet = TRUE]

\* C7: a cycle that has set the connection appends its usage sample without
\* an update of another cycle having been applied in between.
C7_CycleAtomic ==
    [][\A i \in 1..Len(inflight) :
          (AppendsUsage(i) /\ inflight[i].connSet) => ~inflight[i].interleaved]_vars

\* C8: a cycle never applies a result after a cycle started later than it
\* has applied one.
C8_TickOrder ==
    [][\A i \in 1..Len(inflight) :
          (SetsConnection(i) \/ AppendsUsage(i)) => ~inflight[i].overtaken]_vars

\* C9: as long as the user has not clicked rescan, at most one
\* getLocalDevices request has been issued.
C9_OneShot ==
    (~userRescanned) => Cardinality({r \in Reqs : reqState[r] # "unsent"}) <= 1

\* C10: the UI has at most one getLocalDevices request outstanding.
C10_OneOutstanding ==
    Cardinality({r \in Reqs : reqState[r] \in {"sent", "awaiting", "returned"}}) <= 1

\* C11: as long as the view is mounted, whatever null results and
\* rejections earlier calls met, the interval stays armed and the liveness
\* flag set (so the next tick issues its requests), and a successful
\* connection or usage result of any call in flight is applied.
C11_PollingContinues ==
    (view = "mounted") =>
        /\ statsInterval
        /\ isPolling
        /\ \A i \in 1..Len(inflight) :
            /\ inflight[i].phase = "conn" =>
                 \A conn \in ConnReplies \ {Null} :
                    ENABLED (ConnReply(i, conn) /\ connection' = conn)
            /\ inflight[i].phase = "usage" =>
                 \A usage \in UsageReplies \ {Null} :
                    ENABLED (UsageReply(i, usage, now + 1)
                             /\ usageHistory'[Len(usageHistory')].label = now + 1)

\* a call whose connection result was null has gone on to append its usage
\* sample (the connection has never been set, a sample has been applied),
\* and a later call is in flight, the view being mounted
C11_Witness ==
    /\ view = "mounted"
    /\ connection = Null
    /\ now >= 1
    /\ Len(inflight) >= 1
    /\ statsInterval /\ isPolling

\* some interface of the system is the default one, or is up with an address
Qualifies(sys) ==
    \E k \in 1..Len(sys.interfaces) :
        \/ sys.interfaces[k].iface = sys.defaultIface
        \/ sys.interfaces[k].operstate = "up" /\ sys.interfaces[k].ip4 # ""

\* C12: get-active-connection resolves to null exactly when the primary
\* query throws; with no qualifying interface it resolves to the
\* disconnected snapshot; for a wireless interface whose wireless-status
\* query fails it resolves to a snapshot named after the interface, with
\* signal 100 and security N/A.
C12_NeverNullOnSuccess ==
    (lastCall # Null /\ Val(lastCall).op = "get-active-connection") =>
        LET sys == Val(lastCall).in
            out == Val(lastCall).out
        IN  /\ (out = Null) <=> (sys.primary = "throws")
            /\ (sys.primary = "ok" /\ ~Qualifies(sys)) => out = Some(DisconnectedSnapshot)
            /\ (sys.primary = "ok" /\ Qualifies(sys)) =>
                 /\ out # Null
                 /\ \E k \in 1..Len(sys.interfaces) :
                        /\ Val(out).iface = sys.interfaces[k].iface
                        /\ Val(out).type = sys.interfaces[k].type
                 /\ (Val(out).type = "wireless" /\ sys.wifi.throws) =>
                        /\ Val(out).ssid = Val(out).iface
                        /\ Val(out).signal_level = 100
                        /\ Val(out).security = "N/A"

\* the request was handled for a wireless interface whose wireless-status
\* query failed
C12_Witness ==
    /\ lastCall # Null
    /\ Val(lastCall).op = "get-active-connection"
    /\ Val(lastCall).in.primary = "ok"
    /\ Val(lastCall).in.wifi.throws
    /\ Val(lastCall).out # Null
    /\ Val(lastCall).out # Some(DisconnectedSnapshot)
    /\ Val(Val(lastCall).out).type = "wireless"

Abs(x) == IF x < 0 THEN 0 - x ELSE x

\* C13: formatSpeed gives {0, B/s} for 0; for a nonzero rate with
\* bytes/1024 < 1000 the unit KB/s and the tenth nearest to bytes/1024; for
\* any other rate the unit MB/s and the tenth nearest to bytes/1024/1024;
\* 500*1024 gives {500.0, KB/s} and 1500*1024 gives {1.5, MB/s}.
C13_FormatSpeedPolicy ==
    (lastCall # Null /\ Val(lastCall).op = "formatSpeed") =>
        LET b == Val(lastCall).in
            out == Val(lastCall).out
        IN  /\ b = 0 => out = [val10 |-> 0, unit |-> "B/s"]
            /\ (b # 0 /\ b < 1000 * 1024) =>
                 /\ out.unit = "KB/s"
                 /\ 2 * Abs(10 * b - 1024 * out.val10) <= 1024
            /\ b >= 1000 * 1024 =>
                 /\ out.unit = "MB/s"
                 /\ 2 * Abs(10 * b - 1024 * 1024 * out.val10) <= 1024 * 1024
            /\ b = 500 * 1024 => out = [val10 |-> 5000, unit |-> "KB/s"]
            /\ b = 1500 * 1024 => out = [val10 |-> 15, unit |-> "MB/s"]

\* a rate of 1500 KB/s has been formatted in MB/s
C13_Witness ==
    /\ lastCall # Null
    /\ Val(lastCall).op = "formatSpeed"
    /\ Val(lastCall).in = 1500 * 1024
    /\ Val(lastCall).out.unit = "MB/s"

\* C14: the guard is true as long as an admitted scan is in progress, and a
\* step that rejects a request leaves the guard true and the scan in
\* progress.
C14_RejectKeepsGuard ==
    /\ [](Awaiting # {} => isScanning)
    /\ [][\A r \in Reqs :
            (reqState[r] = "sent" /\ reqState'[r] = "returned")
            => (isScanning /\ isScanning' /\ Awaiting' = Awaiting /\ Awaiting # {})]_vars

\* a rejected request has been answered and consumed while the scan that
\* holds the guard is still in progress
C14_Witness ==
    /\ isScanning
    /\ \E r, q \in Reqs :
        /\ q \in Awaiting
        /\ reqState[r] = "consumed" /\ findState[r] = "none"

====
